---- MODULE Spec2Model ----
(***************************************************************************)
(* Model of src-tauri/src/lib.rs: the function run(), which assembles a    *)
(* tauri::Builder by registering plugins and then calls Builder::run,      *)
(* whose Result is unwrapped by expect.                                    *)
(*                                                                         *)
(* The binary is built for one target (a compile-time fact shared by all   *)
(* launches).  Two launches of that same binary are modelled side by side, *)
(* each with its own runtime input, so that statements comparing two       *)
(* executions can be checked.  The runtime behind Builder::run is opaque:  *)
(* it either fails to start (Err), or enters its event loop, dispatches    *)
(* events, and may leave the loop (Ok) or stay in it forever.              *)
(***************************************************************************)
EXTENDS Naturals, Sequences, FiniteSets

\* target       target_os the binary was compiled for (lib.rs:12)
\* runtimeInput what each launch's environment gives the runtime (lib.rs:18)
\* pc           position of each launch in run(): "L<n>" is about to execute
\*              line n, "run"/"loop" are inside Builder::run
\* plugins      the plugins registered on builder, in registration order
\* runCalls     how many times builder.run has been invoked
\* dispatched   events the event loop has dispatched
\* result       the value builder.run returned, once it has
\* panic        the payload of the panic raised by expect, if any
VARIABLES target, runtimeInput, pc, plugins, runCalls, dispatched, result, panic

vars == <<target, runtimeInput, pc, plugins, runCalls, dispatched, result, panic>>

\* Bound on the number of events the event loop dispatches in the model.
MaxEvents == 3

\* The two launches of the binary.
Execs == {1, 2}

\* Values of target_os the crate can be compiled for.
Targets == {"windows", "macos", "linux", "android", "ios"}

\* What the environment gives the runtime at startup.
RuntimeInputs == {"ok", "create_window_failed", "setup_failed"}

\* lib.rs:19, the message given to expect.
ExpectMsg == "error while running tauri application"

NoPanic == [msg |-> "", err |-> ""]
NoResult == [tag |-> "None", err |-> ""]

\* ---- mutants of the cfg predicate ----
CfgForgetsIos == target # "android"

\* lib.rs:12  #[cfg(not(any(target_os = "android", target_os = "ios")))]
CfgNotMobile == ~(target = "android" \/ target = "ios")

\* ---- mutants of Builder::plugin ----
PluginDropped(b, p) == b
PluginPrepended(b, p) == <<p>> \o b
PluginTwice(b, p) == Append(Append(b, p), p)

\* builder.plugin(p): the builder with p registered after what it holds.
Plugin(b, p) == Append(b, p)

\* lib.rs:5  tauri::Builder::default()
BuilderDefault(e) ==
    /\ pc[e] = "L5"
    /\ plugins' = [plugins EXCEPT ![e] = << >>]
    /\ pc' = [pc EXCEPT ![e] = "L6"]
    /\ UNCHANGED <<target, runtimeInput, runCalls, dispatched, result, panic>>

\* lib.rs:6  .plugin(tauri_plugin_clipboard::init())
PluginClipboard(e) ==
    /\ pc[e] = "L6"
    /\ plugins' = [plugins EXCEPT ![e] = Plugin(@, "clipboard")]
    /\ pc' = [pc EXCEPT ![e] = "L7"]
    /\ UNCHANGED <<target, runtimeInput, runCalls, dispatched, result, panic>>

\* lib.rs:7  .plugin(tauri_plugin_opener::init())
PluginOpener(e) ==
    /\ pc[e] = "L7"
    /\ plugins' = [plugins EXCEPT ![e] = Plugin(@, "opener")]
    /\ pc' = [pc EXCEPT ![e] = "L8"]
    /\ UNCHANGED <<target, runtimeInput, runCalls, dispatched, result, panic>>

\* lib.rs:8  .plugin(tauri_plugin_fs::init());  the cfg block of lines 12-15
\* is compiled in or out, so the next statement is line 14 or line 17.
PluginFs(e) ==
    /\ pc[e] = "L8"
    /\ plugins' = [plugins EXCEPT ![e] = Plugin(@, "fs")]
    /\ pc' = [pc EXCEPT ![e] = IF CfgNotMobile THEN "L14" ELSE "L17"]
    /\ UNCHANGED <<target, runtimeInput, runCalls, dispatched, result, panic>>

\* ---- mutant: the shortcut plugin gated by a run-time condition ----
PluginGlobalShortcutAtRuntime(e) ==
    /\ pc[e] = "L14"
    /\ plugins' = [plugins EXCEPT ![e] =
                     IF runtimeInput[e] = "ok" THEN Plugin(@, "global-shortcut") ELSE @]
    /\ pc' = [pc EXCEPT ![e] = "L17"]
    /\ UNCHANGED <<target, runtimeInput, runCalls, dispatched, result, panic>>

\* lib.rs:14  builder = builder.plugin(tauri_plugin_global_shortcut::Builder::new().build());
PluginGlobalShortcut(e) ==
    /\ pc[e] = "L14"
    /\ plugins' = [plugins EXCEPT ![e] = Plugin(@, "global-shortcut")]
    /\ pc' = [pc EXCEPT ![e] = "L17"]
    /\ UNCHANGED <<target, runtimeInput, runCalls, dispatched, result, panic>>

\* lib.rs:17-18  builder.run(tauri::generate_context!()): control passes to
\* the runtime.
BuilderRun(e) ==
    /\ pc[e] = "L17"
    /\ runCalls' = [runCalls EXCEPT ![e] = @ + 1]
    /\ pc' = [pc EXCEPT ![e] = "run"]
    /\ UNCHANGED <<target, runtimeInput, plugins, dispatched, result, panic>>

\* Inside Builder::run: the runtime fails to start and run returns Err.
RuntimeStartFails(e) ==
    /\ pc[e] = "run"
    /\ runtimeInput[e] # "ok"
    /\ result' = [result EXCEPT ![e] = [tag |-> "Err", err |-> runtimeInput[e]]]
    /\ pc' = [pc EXCEPT ![e] = "L19"]
    /\ UNCHANGED <<target, runtimeInput, plugins, runCalls, dispatched, panic>>

\* Inside Builder::run: the runtime starts and enters its event loop.
RuntimeStarts(e) ==
    /\ pc[e] = "run"
    /\ runtimeInput[e] = "ok"
    /\ pc' = [pc EXCEPT ![e] = "loop"]
    /\ UNCHANGED <<target, runtimeInput, plugins, runCalls, dispatched, result, panic>>

\* Inside Builder::run: the event loop dispatches one event.
Dispatch(e) ==
    /\ pc[e] = "loop"
    /\ dispatched[e] < MaxEvents
    /\ dispatched' = [dispatched EXCEPT ![e] = @ + 1]
    /\ UNCHANGED <<target, runtimeInput, pc, plugins, runCalls, result, panic>>

\* Inside Builder::run: the event loop ends and run returns Ok(()).
LoopExits(e) ==
    /\ pc[e] = "loop"
    /\ result' = [result EXCEPT ![e] = [tag |-> "Ok", err |-> ""]]
    /\ pc' = [pc EXCEPT ![e] = "L19"]
    /\ UNCHANGED <<target, runtimeInput, plugins, runCalls, dispatched, panic>>

\* ---- mutants of expect on Ok ----
ExpectOkPanics(e) ==
    /\ pc[e] = "L19"
    /\ result[e].tag = "Ok"
    /\ panic' = [panic EXCEPT ![e] = [msg |-> ExpectMsg, err |-> ""]]
    /\ pc' = [pc EXCEPT ![e] = "panicked"]
    /\ UNCHANGED <<target, runtimeInput, plugins, runCalls, dispatched, result>>

ExpectOkThenRegisters(e) ==
    /\ pc[e] = "L19"
    /\ result[e].tag = "Ok"
    /\ plugins' = [plugins EXCEPT ![e] = Plugin(@, "global-shortcut")]
    /\ pc' = [pc EXCEPT ![e] = "returned"]
    /\ UNCHANGED <<target, runtimeInput, runCalls, dispatched, result, panic>>

\* lib.rs:19-20  .expect(..) on Ok(()) yields (), and run() returns.
ExpectOk(e) ==
    /\ pc[e] = "L19"
    /\ result[e].tag = "Ok"
    /\ pc' = [pc EXCEPT ![e] = "returned"]
    /\ UNCHANGED <<target, runtimeInput, plugins, runCalls, dispatched, result, panic>>

\* ---- mutants of expect on Err ----
ExpectErrIgnored(e) ==
    /\ pc[e] = "L19"
    /\ result[e].tag = "Err"
    /\ pc' = [pc EXCEPT ![e] = "returned"]
    /\ UNCHANGED <<target, runtimeInput, plugins, runCalls, dispatched, result, panic>>

ExpectErrRetries(e) ==
    /\ pc[e] = "L19"
    /\ result[e].tag = "Err"
    /\ runCalls[e] < 2
    /\ pc' = [pc EXCEPT ![e] = "L17"]
    /\ UNCHANGED <<target, runtimeInput, plugins, runCalls, dispatched, result, panic>>

\* lib.rs:19  .expect(..) on Err(err) panics with "<msg>: <err:?>".
ExpectErr(e) ==
    /\ pc[e] = "L19"
    /\ result[e].tag = "Err"
    /\ panic' = [panic EXCEPT ![e] = [msg |-> ExpectMsg, err |-> result[e].err]]
    /\ pc' = [pc EXCEPT ![e] = "panicked"]
    /\ UNCHANGED <<target, runtimeInput, plugins, runCalls, dispatched, result>>

Init ==
    /\ target \in Targets
    /\ runtimeInput \in [Execs -> RuntimeInputs]
    /\ pc = [e \in Execs |-> "L5"]
    /\ plugins = [e \in Execs |-> << >>]
    /\ runCalls = [e \in Execs |-> 0]
    /\ dispatched = [e \in Execs |-> 0]
    /\ result = [e \in Execs |-> NoResult]
    /\ panic = [e \in Execs |-> NoPanic]

\* The statements of run() itself, lib.rs:4-20.
RunStep(e) ==
    \/ BuilderDefault(e)
    \/ PluginClipboard(e)
    \/ PluginOpener(e)
    \/ PluginFs(e)
    \/ PluginGlobalShortcut(e)
    \/ BuilderRun(e)
    \/ ExpectOk(e)
    \/ ExpectErr(e)

\* The steps taken inside Builder::run.
RuntimeStep(e) ==
    \/ RuntimeStartFails(e)
    \/ RuntimeStarts(e)
    \/ Dispatch(e)
    \/ LoopExits(e)

Next == \E e \in Execs : RunStep(e) \/ RuntimeStep(e)

Spec == Init /\ [][Next]_vars

\* Straight-line code runs on: a statement of run() that can execute does,
\* and a runtime that is starting either starts or fails.  Nothing forces
\* the event loop to end.
FairSpec ==
    /\ Spec
    /\ \A e \in Execs : WF_vars(RunStep(e))
    /\ \A e \in Execs : WF_vars(RuntimeStartFails(e) \/ RuntimeStarts(e))

\* Positions at or after the call of Builder::run.
Handed == {"run", "loop", "L19", "returned", "panicked"}

TypeOK ==
    /\ target \in Targets
    /\ runtimeInput \in [Execs -> RuntimeInputs]
    /\ pc \in [Execs -> {"L5", "L6", "L7", "L8", "L14", "L17"} \cup Handed]
    /\ runCalls \in [Execs -> 0..1]
    /\ dispatched \in [Execs -> 0..MaxEvents]


\* ---- helpers for stating the properties ----
Range(s) == {s[i] : i \in DOMAIN s}
IsPrefix(s, t) == Len(s) <= Len(t) /\ \A i \in 1..Len(s) : s[i] = t[i]
NoDuplicates(s) == \A i, j \in 1..Len(s) : s[i] = s[j] => i = j
Mobile == {"android", "ios"}

\* C1: on every target, when run() hands control to the runtime (the call
\* of builder.run), the registered plugins include clipboard, opener and
\* filesystem.
C1_UnconditionalPresent ==
    \A e \in Execs :
        pc[e] = "run" => {"clipboard", "opener", "fs"} \subseteq Range(plugins[e])

C1_Witness ==
    \E e \in Execs : pc[e] = "run" /\ target = "android" /\ Len(plugins[e]) = 3

\* C2: when run() invokes the runtime, global-shortcut is registered if and
\* only if the target is neither android nor ios.
C2_ShortcutIffNotMobile ==
    \A e \in Execs :
        pc[e] = "run" =>
            (("global-shortcut" \in Range(plugins[e])) <=> (target \notin Mobile))

C2_Witness ==
    \E e \in Execs :
        pc[e] = "run" /\ target = "ios" /\ "global-shortcut" \notin Range(plugins[e])

\* C3: if the runtime's run call returns an error, run() ends panicked with
\* the message "error while running tauri application"; after a failed
\* startup it never enters the event loop and never returns normally.
C3_ErrAborts ==
    /\ [](\A e \in Execs :
            /\ result[e].tag = "Err" => pc[e] \in {"L19", "panicked"}
            /\ (result[e].tag = "Err" /\ pc[e] = "panicked") =>
                   panic[e].msg = "error while running tauri application")
    /\ [][\A e \in Execs :
            result[e].tag = "Err" => pc'[e] \in {"L19", "panicked"}]_vars
    /\ \A e \in Execs : (result[e].tag = "Err") ~> (pc[e] = "panicked")

C3_Witness ==
    \E e \in Execs :
        /\ result[e].tag = "Err"
        /\ pc[e] = "panicked"
        /\ panic[e] = [msg |-> "error while running tauri application",
                       err |-> "create_window_failed"]

\* C4: in any execution the runtime's run call is invoked at most once;
\* after it fails there is no second invocation and no further plugin
\* registration, and the panicked state is never left.
C4_RunAtMostOnce ==
    /\ [](\A e \in Execs : runCalls[e] <= 1)
    /\ [][\A e \in Execs :
            /\ result[e].tag = "Err" =>
                   /\ runCalls'[e] = runCalls[e]
                   /\ plugins'[e] = plugins[e]
                   /\ result'[e] = result[e]
            /\ pc[e] = "panicked" => pc'[e] = "panicked"]_vars

C4_Witness ==
    \E e \in Execs :
        /\ pc[e] = "panicked"
        /\ runCalls[e] = 1
        /\ result[e].tag = "Err"
        /\ Len(plugins[e]) = 4

\* C5: every plugin registration happens before the runtime's run call:
\* once run has been invoked the registered plugins never change, and while
\* the event loop owns the thread no statement of run() executes.
C5_RegistrationBeforeRun ==
    [][\A e \in Execs :
         /\ pc[e] \in Handed => (plugins'[e] = plugins[e] /\ pc'[e] \in Handed)
         /\ pc[e] = "loop" =>
                /\ pc'[e] \in {"loop", "L19"}
                /\ runCalls'[e] = runCalls[e]
                /\ panic'[e] = panic[e]
         /\ plugins'[e] # plugins[e] => runCalls[e] = 0]_vars

C5_Witness ==
    \E e \in Execs :
        pc[e] = "returned" /\ dispatched[e] = MaxEvents /\ Len(plugins[e]) >= 3

\* C6: plugins are registered in a fixed order: clipboard, then opener, then
\* filesystem, then (only when the target is neither android nor ios)
\* global-shortcut.
C6_FixedOrder ==
    \A e \in Execs :
        /\ IsPrefix(plugins[e],
                    IF target \in Mobile
                        THEN <<"clipboard", "opener", "fs">>
                        ELSE <<"clipboard", "opener", "fs", "global-shortcut">>)
        /\ pc[e] \in Handed =>
               IsPrefix(<<"clipboard", "opener", "fs">>, plugins[e])

C6_Witness ==
    \E e \in Execs :
        /\ pc[e] = "L17"
        /\ target = "macos"
        /\ plugins[e] = <<"clipboard", "opener", "fs", "global-shortcut">>

\* C7: run() panics only when the runtime's run call fails; when the call
\* returns Ok, run() returns normally without a panic message, and an
\* execution that has ended is either returned or panicked, never both.
C7_OkReturns ==
    /\ [](\A e \in Execs :
            /\ pc[e] = "panicked" => result[e].tag = "Err"
            /\ panic[e] # NoPanic => (pc[e] = "panicked" /\ result[e].tag = "Err")
            /\ pc[e] = "returned" => (result[e].tag = "Ok" /\ panic[e] = NoPanic)
            /\ result[e].tag = "Ok" => pc[e] \in {"L19", "returned"}
            /\ ~(ENABLED (RunStep(e) \/ RuntimeStep(e))) =>
                   pc[e] \in {"returned", "panicked"})
    /\ \A e \in Execs : (result[e].tag = "Ok") ~> (pc[e] = "returned")

C7_Witness ==
    \E e \in Execs :
        /\ pc[e] = "returned"
        /\ result[e].tag = "Ok"
        /\ panic[e] = NoPanic
        /\ runCalls[e] = 1

\* C8: each plugin is registered exactly once: the registration sequence has
\* no duplicates, holds exactly 3 plugins on android and ios and exactly 4
\* on every other target once run is invoked, and nothing besides
\* clipboard, opener, filesystem and global-shortcut.
C8_ExactlyOnce ==
    \A e \in Execs :
        /\ NoDuplicates(plugins[e])
        /\ Range(plugins[e]) \subseteq {"clipboard", "opener", "fs", "global-shortcut"}
        /\ pc[e] \in Handed =>
               /\ Len(plugins[e]) = (IF target \in Mobile THEN 3 ELSE 4)
               /\ Cardinality(Range(plugins[e])) = (IF target \in Mobile THEN 3 ELSE 4)

C8_Witness ==
    \E e \in Execs :
        /\ pc[e] = "loop"
        /\ target = "windows"
        /\ Cardinality(Range(plugins[e])) = 4

\* C9: the registered plugins depend on the target alone: two executions of
\* the same build register the same plugins in the same order, whatever
\* their runtime inputs and whether their run calls succeed or fail.
C9_SameTargetSamePlugins ==
    \A e1, e2 \in Execs :
        /\ IsPrefix(plugins[e1], plugins[e2]) \/ IsPrefix(plugins[e2], plugins[e1])
        /\ pc[e1] = pc[e2] => plugins[e1] = plugins[e2]
        /\ (pc[e1] \in Handed /\ pc[e2] \in Handed) => plugins[e1] = plugins[e2]

C9_Witness ==
    \E e1, e2 \in Execs :
        /\ runtimeInput[e1] = "ok" /\ runtimeInput[e2] = "setup_failed"
        /\ pc[e1] = "returned" /\ pc[e2] = "panicked"
        /\ target = "linux"
        /\ plugins[e1] = plugins[e2]
        /\ Len(plugins[e1]) = 4

====
